---- MODULE Spec2Model ----
(***************************************************************************)
(* A model of gitlab-upgrade-helper: the two remote pipelines of           *)
(* src/gitlab_upgrade_helper/config.py (modify_gitlab_rb_setting and       *)
(* apply_gitlab_rb_template), the local renderer, the directive patch      *)
(* loop, and the apply-template command of cli.py.                         *)
(*                                                                         *)
(* Text is a sequence of one-character strings.  The remote host is a      *)
(* small file system with four paths: the canonical gitlab.rb, its         *)
(* timestamped backup, and the two /tmp artifacts.  Every remote call      *)
(* either succeeds or raises, chosen nondeterministically.  A command that *)
(* exits non-zero has no effect on the remote files; a call that raises    *)
(* because the connection went down may or may not have run on the host.   *)
(*                                                                         *)
(* Spec is one invocation, FairSpec the same with each statement followed  *)
(* by the next, PatchSpec the patch loop on every bounded document, and    *)
(* HostSpec two invocations interleaved against one host.                  *)
(***************************************************************************)
EXTENDS Naturals, Sequences, FiniteSets, TLC

VARIABLES
    command,          \* which CLI path runs: "set-config", "apply-template", "render-only"
    create_backup,    \* --backup/--no-backup
    run_reconfigure,  \* --reconfigure/--no-reconfigure
    vars_file,        \* state of the YAML variable file on local disk
    template_file,    \* state of the Jinja2 template on local disk
    template_body,    \* the text template.render returns for this template
    pc,               \* position in the running function
    is_connected,     \* conn.is_connected
    timestamp,        \* the local `timestamp`: "unbound" or "ts"
    remote,           \* remote file system: [rb, bak, download, upload]
    pre_run,          \* content of gitlab.rb before the run (history)
    original_content, \* text fetched from the host (Setting Patcher)
    new_content,      \* modified_content / final_content: the text to upload
    calls,            \* remote calls issued so far, in order: [op, ok]
    log,              \* log events emitted so far
    retval,           \* "pending", "True" or "False"
    result_file,      \* --result-file: "none", "writable" or "unwritable"
    rendered_output,  \* what render_template_locally returned: << >> is None
    status,           \* the status lines click.secho printed, in order
    exit_code,        \* "running", "0" or "1"
    document,         \* patch study: the input document
    setting_key,      \* patch study: the key
    patched,          \* patch study: the results of the successive patch runs
    clock,            \* shared-host study: the second datetime.now() falls in
    host,             \* shared-host study: the files of the host, by path
    runs              \* shared-host study: the locals of each running function

vars == << command, create_backup, run_reconfigure, vars_file, template_file,
           template_body, pc, is_connected, timestamp, remote, pre_run,
           original_content, new_content, calls, log, retval, result_file,
           rendered_output, status, exit_code,
           document, setting_key, patched, clock, host, runs >>

pipelineVars == << command, create_backup, run_reconfigure, vars_file,
                   template_file, template_body, pc, is_connected, timestamp,
                   remote, pre_run, original_content, new_content, calls, log,
                   retval, result_file, rendered_output, status, exit_code >>

patchVars == << document, setting_key, patched >>

hostVars == << clock, host, runs >>

-----------------------------------------------------------------------------
(* Bounds and alphabets *)

\* longest input document of the patch study, in characters
MaxLen == 4

\* how many times in a row the patch study applies the patch loop
MaxRuns == 2

NL == "nl"

\* characters of input documents: a key character, another identifier
\* character, a blank, the comment marker and the line terminator
Chars == {"k", "x", " ", "#", NL}

\* \s of the regular expression and the characters str.strip() removes
Whitespace == {" ", NL}

Docs == UNION { [1..n -> Chars] : n \in 0..MaxLen }

Keys == { <<"k">>, <<"k", "x">> }

\* the value given on the command line
setting_value == <<"v">>

\* a path of the remote file system holds no file, or a file with a content
NoFile == << >>
File(content) == << content >>
Content(file) == file[1]

-----------------------------------------------------------------------------
(* The directive patch loop, config.py lines 98-129 *)

RECURSIVE SplitAt(_, _, _)
SplitAt(s, i, cur) ==
    IF i > Len(s) THEN << cur >>
    ELSE IF s[i] = NL THEN << cur >> \o SplitAt(s, i + 1, << >>)
    ELSE SplitAt(s, i + 1, Append(cur, s[i]))

\* str.splitlines(): the pieces between line terminators, without a final
\* empty piece ("" gives no line, "a\n" gives one)
splitlines(s) ==
    LET p == SplitAt(s, 1, << >>)
    IN  IF p[Len(p)] = << >> THEN SubSeq(p, 1, Len(p) - 1) ELSE p

AllSpace(s, from, to) == \A n \in from..to : s[n] \in Whitespace

StartsWithAt(s, at, k) ==
    /\ at + Len(k) - 1 <= Len(s)
    /\ \A n \in 1..Len(k) : s[at + n - 1] = k[n]

\* a variant that wants the key to end at a word boundary (KEY\b)
pattern_match_word_boundary(line, k) ==
    \E i \in 0..Len(line) :
        /\ AllSpace(line, 1, i)
        /\ \E j \in i..Len(line) :
              /\ \/ j = i
                 \/ /\ j > i
                    /\ line[i + 1] = "#"
                    /\ AllSpace(line, i + 2, j)
              /\ StartsWithAt(line, j + 1, k)
              /\ \/ j + Len(k) = Len(line)
                 \/ line[j + Len(k) + 1] \notin {"k", "x"}

\* pattern.match(line) for ^\s*(#\s*)?KEY\s*=?\s*.* : some split of the line
\* into leading blanks, an optional marker with its blanks, and the key; the
\* tail \s*=?\s*.* matches whatever follows
pattern_match(line, k) ==
    \E i \in 0..Len(line) :
        /\ AllSpace(line, 1, i)
        /\ \/ StartsWithAt(line, i + 1, k)
           \/ /\ i < Len(line)
              /\ line[i + 1] = "#"
              /\ \E j \in (i + 1)..Len(line) :
                    /\ AllSpace(line, i + 2, j)
                    /\ StartsWithAt(line, j + 1, k)

RECURSIVE lstrip(_)
lstrip(s) ==
    IF s # << >> /\ Head(s) \in Whitespace THEN lstrip(Tail(s)) ELSE s

RECURSIVE rstrip(_)
rstrip(s) ==
    IF s # << >> /\ s[Len(s)] \in Whitespace
    THEN rstrip(SubSeq(s, 1, Len(s) - 1)) ELSE s

strip(s) == rstrip(lstrip(s))

\* a variant that writes the assignment without blanks
new_line_unspaced(k, v) == k \o << "=" >> \o v

new_line(k, v) == k \o << " ", "=", " " >> \o v

\* a variant that keeps the line's own blanks
commented_line_unstripped(line) == << "#", " " >> \o line

commented_line(line) == << "#", " " >> \o strip(line)

\* the first appended element, "\n# Added by gitlab-upgrade-helper <iso time>":
\* a line terminator, the comment marker, a blank and the text (one token "A")
AddedComment == << "#", " ", "A" >>
added_element == << NL >> \o AddedComment

\* the for loop over original_content.splitlines(): acc is
\* [lines |-> modified_lines, found |-> found, dups |-> duplicates commented]
RECURSIVE patch_loop(_, _, _, _, _)
patch_loop(lines, i, k, v, acc) ==
    IF i > Len(lines) THEN acc
    ELSE IF pattern_match(lines[i], k)
         THEN IF ~acc.found
              THEN patch_loop(lines, i + 1, k, v,
                     [acc EXCEPT !.lines = Append(@, new_line(k, v)),
                                 !.found = TRUE])
              ELSE patch_loop(lines, i + 1, k, v,
                     [acc EXCEPT !.lines = Append(@, commented_line(lines[i])),
                                 !.dups = @ + 1])
         ELSE patch_loop(lines, i + 1, k, v,
                     [acc EXCEPT !.lines = Append(@, lines[i])])

\* a variant that appends the new line without the comment element
append_line_only(acc, k, v) ==
    IF ~acc.found
    THEN [acc EXCEPT !.lines = Append(@, new_line(k, v))]
    ELSE acc

\* the `if not found:` block
append_if_missing(acc, k, v) ==
    IF ~acc.found
    THEN [acc EXCEPT !.lines = @ \o << added_element, new_line(k, v) >>]
    ELSE acc

RECURSIVE join(_)
\* "\n".join(lines)
join(lines) ==
    IF lines = << >> THEN << >>
    ELSE IF Len(lines) = 1 THEN lines[1]
    ELSE lines[1] \o << NL >> \o join(Tail(lines))

\* a variant that joins the lines and adds no final terminator
modify_setting_unterminated(content, k, v) ==
    LET acc == append_if_missing(
                   patch_loop(splitlines(content), 1, k, v,
                              [lines |-> << >>, found |-> FALSE, dups |-> 0]),
                   k, v)
    IN  [modified_content |-> join(acc.lines),
         found |-> acc.found,
         dups |-> acc.dups]

\* section 3 of modify_gitlab_rb_setting: the new text and what happened
modify_setting(content, k, v) ==
    LET acc == append_if_missing(
                   patch_loop(splitlines(content), 1, k, v,
                              [lines |-> << >>, found |-> FALSE, dups |-> 0]),
                   k, v)
    IN  [modified_content |-> join(acc.lines) \o << NL >>,
         found |-> acc.found,
         dups |-> acc.dups]

-----------------------------------------------------------------------------
(* The patch study: the patch loop applied to every bounded document *)

IdlePipeline ==
    /\ command = "none"
    /\ create_backup = FALSE
    /\ run_reconfigure = FALSE
    /\ vars_file = "valid"
    /\ template_file = "valid"
    /\ template_body = << >>
    /\ pc = "idle"
    /\ is_connected = FALSE
    /\ timestamp = "unbound"
    /\ remote = [rb |-> << >>, bak |-> NoFile, download |-> NoFile, upload |-> NoFile]
    /\ pre_run = << >>
    /\ original_content = << >>
    /\ new_content = << >>
    /\ calls = << >>
    /\ log = {}
    /\ retval = "pending"
    /\ result_file = "none"
    /\ rendered_output = << >>
    /\ status = << >>
    /\ exit_code = "running"

\* no run of the shared-host study is under way
IdleHost ==
    /\ clock = 0
    /\ host = << >>
    /\ runs = << >>

PatchInit ==
    /\ IdlePipeline
    /\ IdleHost
    /\ document \in Docs
    /\ setting_key \in Keys
    /\ patched = << >>

\* one more run of section 3, on the document or on the text the last run made
ModifySetting ==
    /\ Len(patched) < MaxRuns
    /\ patched' = Append(patched,
          modify_setting(IF patched = << >> THEN document
                         ELSE patched[Len(patched)].modified_content,
                         setting_key, setting_value))
    /\ UNCHANGED << document, setting_key >>
    /\ UNCHANGED << pipelineVars, hostVars >>

PatchNext == ModifySetting

PatchSpec == PatchInit /\ [][PatchNext]_vars

-----------------------------------------------------------------------------
(* The local renderer, config.py lines 186-247 *)

VarsFileStates == {"absent", "malformed", "empty", "valid"}
TemplateFileStates == {"absent", "invalid", "valid"}

\* what template.render returns: text with no, one or two final terminators
RenderedBodies == { << "x" >>, << "x", NL >>, << "x", NL, NL >> }

\* the header of line 237: "#", the generation line (token "G"), the template
\* line (token "T"), the variables line (token "V"), "#"
header ==
    << "#", NL, "#", " ", "G", NL, "#", " ", "T", NL, "#", " ", "V", NL, "#", NL >>

\* the mapping an empty YAML document is normalised to, and the mapping of a
\* file that defines a variable
EmptyMapping == {}
SomeMapping == {"var"}

\* a variant that takes the None of an empty document for a failure
load_vars_none_fails(vf) ==
    IF vf = "valid" THEN << SomeMapping >> ELSE << >>

\* lines 201-215: << template_vars >>, or << >> when an except clause returns
\* None (FileNotFoundError for an absent file, YAMLError for a malformed one);
\* yaml.safe_load gives None for an empty document, replaced by {}
load_vars(vf) ==
    CASE vf = "valid" -> << SomeMapping >>
      [] vf = "empty" -> << EmptyMapping >>
      [] OTHER -> << >>

\* loading the variables, lines 201-215: FALSE when an except clause returns None
vars_loaded(vf) == load_vars(vf) # << >>

\* loading and rendering the template, lines 219-247
template_rendered(tf) == tf = "valid"

\* a variant that trims the rendered text before adding the terminator
render_template_locally_trimmed(tf, vf, body) ==
    IF ~vars_loaded(vf) THEN << >>
    ELSE IF ~template_rendered(tf) THEN << >>
    ELSE << header \o rstrip(body) \o << NL >> >>

\* render_template_locally: << >> for None, else << final_content >>
render_template_locally(tf, vf, body) ==
    IF ~vars_loaded(vf) THEN << >>
    ELSE IF ~template_rendered(tf) THEN << >>
    ELSE << header \o body \o << NL >> >>

-----------------------------------------------------------------------------
(* The remote host and the transport *)

\* how a remote call ends: normally, with invoke's UnexpectedExit (non-zero
\* exit status), or with another exception that leaves the connection down,
\* raised before the command ran or after it ran on the host
Outcomes == {"ok", "UnexpectedExit", "ConnectionLost", "ConnectionLostAfter"}

\* the command took effect on the host
Ran(o) == o \in {"ok", "ConnectionLostAfter"}

\* conn.is_connected after the call
Up(o) == o \notin {"ConnectionLost", "ConnectionLostAfter"}

\* contents gitlab.rb may have before a run
InitialDocs == { << >>, << "k", " ", "o", NL >>, << "x", NL, "#", "k", NL, "k" >> }

Issued(op, o) == Append(calls, [op |-> op, ok |-> (o = "ok")])

\* cp FROM TO on the host
RemoteCp(fs, from, to) == [fs EXCEPT ![to] = fs[from]]

\* mv FROM TO on the host
RemoteMv(fs, from, to) == [fs EXCEPT ![to] = fs[from], ![from] = NoFile]

\* a variant that leaves the file where it is
RemoteRmKeepsFile(fs, path) == fs

\* rm PATH on the host
RemoteRm(fs, path) == [fs EXCEPT ![path] = NoFile]

-----------------------------------------------------------------------------
(* Initial states: one invocation of the command line *)

Init ==
    /\ command \in {"set-config", "apply-template", "render-only"}
    /\ create_backup \in BOOLEAN
    /\ run_reconfigure \in BOOLEAN
    /\ IF command = "set-config"
       THEN /\ vars_file = "valid"
            /\ template_file = "valid"
            /\ template_body = << "x" >>
            /\ setting_key \in Keys
       ELSE /\ vars_file \in VarsFileStates
            /\ template_file \in TemplateFileStates
            /\ template_body \in RenderedBodies
            /\ setting_key = << "k" >>
    /\ IF command = "render-only"
       THEN result_file \in {"none", "writable", "unwritable"}
       ELSE result_file = "none"
    /\ pc = "start"
    /\ is_connected = FALSE
    /\ timestamp = "unbound"
    /\ \E d \in InitialDocs :
          /\ remote = [rb |-> File(d), bak |-> NoFile,
                       download |-> NoFile, upload |-> NoFile]
          /\ pre_run = d
    /\ original_content = << >>
    /\ new_content = << >>
    /\ calls = << >>
    /\ log = {}
    /\ retval = "pending"
    /\ rendered_output = << >>
    /\ status = << >>
    /\ exit_code = "running"
    /\ document = << >>
    /\ patched = << >>
    /\ IdleHost

inputVars == << command, create_backup, run_reconfigure, vars_file,
                template_file, template_body, result_file, pre_run >>

cliVars == << status, exit_code >>

-----------------------------------------------------------------------------
(* modify_gitlab_rb_setting, config.py lines 19-184 *)

\* line 58: conn.run("uname -a") opens the connection and runs the check;
\* any exception reaches the handler of line 178
ModifyConnect ==
    /\ command = "set-config"
    /\ pc = "start"
    /\ \E o \in {"ok", "OpenFailed", "UnexpectedExit"} :
          /\ calls' = Issued("uname", o)
          /\ is_connected' = (o # "OpenFailed")
          /\ IF o = "ok"
             THEN /\ pc' = IF create_backup THEN "backup" ELSE "download"
                  /\ log' = log \cup {"connection_successful"}
                  /\ retval' = retval
             ELSE /\ pc' = "finally"
                  /\ log' = log \cup {"operation_error"}
                  /\ retval' = "False"
    /\ UNCHANGED << timestamp, remote, original_content, new_content,
                    rendered_output >>
    /\ UNCHANGED << inputVars, cliVars, patchVars, hostVars >>

\* a variant that carries on after a failed backup copy
ModifyBackupFailOpen ==
    /\ command = "set-config"
    /\ pc = "backup"
    /\ timestamp' = "ts"
    /\ \E o \in Outcomes :
          /\ calls' = Issued("backup_cp", o)
          /\ is_connected' = Up(o)
          /\ remote' = IF Ran(o) THEN RemoteCp(remote, "rb", "bak") ELSE remote
          /\ log' = log \cup { CASE o = "ok" -> "backup_created"
                                 [] o = "UnexpectedExit" -> "backup_failed"
                                 [] OTHER -> "operation_error" }
          /\ pc' = IF o \in {"ok", "UnexpectedExit"} THEN "download" ELSE "finally"
          /\ retval' = IF o \in {"ok", "UnexpectedExit"} THEN retval ELSE "False"
    /\ UNCHANGED << original_content, new_content, rendered_output >>
    /\ UNCHANGED << inputVars, cliVars, patchVars, hostVars >>

\* lines 62-72: the timestamp is bound here, and only here
ModifyBackup ==
    /\ command = "set-config"
    /\ pc = "backup"
    /\ timestamp' = "ts"
    /\ \E o \in Outcomes :
          /\ calls' = Issued("backup_cp", o)
          /\ is_connected' = Up(o)
          /\ remote' = IF Ran(o) THEN RemoteCp(remote, "rb", "bak") ELSE remote
          /\ log' = log \cup { CASE o = "ok" -> "backup_created"
                                 [] o = "UnexpectedExit" -> "backup_failed"
                                 [] OTHER -> "operation_error" }
          /\ pc' = IF o = "ok" THEN "download" ELSE "finally"
          /\ retval' = IF o = "ok" THEN retval ELSE "False"
    /\ UNCHANGED << original_content, new_content, rendered_output >>
    /\ UNCHANGED << inputVars, cliVars, patchVars, hostVars >>

\* a variant that logs the failed download and goes on to the patch
DownloadFailedContinues ==
    /\ log' = log \cup {"download_failed"}
    /\ pc' = "modify"
    /\ retval' = retval

\* what every failure inside the try of lines 77-93 does
DownloadFailed ==
    /\ log' = log \cup {"download_failed"}
    /\ pc' = "finally"
    /\ retval' = "False"

\* lines 79-82: conn.sftp(), then the temp path is built from `timestamp`,
\* which raises UnboundLocalError when no backup was requested
ModifyOpenSftp ==
    /\ command = "set-config"
    /\ pc = "download"
    /\ \E o \in Outcomes :
          /\ calls' = Issued("sftp", o)
          /\ is_connected' = Up(o)
          /\ IF o = "ok" /\ timestamp # "unbound"
             THEN /\ pc' = "download_cp"
                  /\ UNCHANGED << log, retval >>
             ELSE DownloadFailed
    /\ UNCHANGED << timestamp, remote, original_content, new_content,
                    rendered_output >>
    /\ UNCHANGED << inputVars, cliVars, patchVars, hostVars >>

\* line 83: sudo cp gitlab.rb to the temp path
ModifyDownloadCp ==
    /\ command = "set-config"
    /\ pc = "download_cp"
    /\ \E o \in Outcomes :
          /\ calls' = Issued("download_cp", o)
          /\ is_connected' = Up(o)
          /\ remote' = IF Ran(o) THEN RemoteCp(remote, "rb", "download") ELSE remote
          /\ IF o = "ok"
             THEN /\ pc' = "download_chown"
                  /\ UNCHANGED << log, retval >>
             ELSE DownloadFailed
    /\ UNCHANGED << timestamp, original_content, new_content, rendered_output >>
    /\ UNCHANGED << inputVars, cliVars, patchVars, hostVars >>

\* line 84: sudo chown of the temp file
ModifyDownloadChown ==
    /\ command = "set-config"
    /\ pc = "download_chown"
    /\ \E o \in Outcomes :
          /\ calls' = Issued("download_chown", o)
          /\ is_connected' = Up(o)
          /\ IF o = "ok"
             THEN /\ pc' = "download_get"
                  /\ UNCHANGED << log, retval >>
             ELSE DownloadFailed
    /\ UNCHANGED << timestamp, remote, original_content, new_content,
                    rendered_output >>
    /\ UNCHANGED << inputVars, cliVars, patchVars, hostVars >>

\* line 85: conn.get of the temp file into the local stream
ModifyDownloadGet ==
    /\ command = "set-config"
    /\ pc = "download_get"
    /\ \E o \in Outcomes :
          /\ calls' = Issued("get", o)
          /\ is_connected' = Up(o)
          /\ original_content' =
                IF o = "ok" THEN Content(remote.download) ELSE original_content
          /\ IF o = "ok"
             THEN /\ pc' = "download_rm"
                  /\ UNCHANGED << log, retval >>
             ELSE DownloadFailed
    /\ UNCHANGED << timestamp, remote, new_content, rendered_output >>
    /\ UNCHANGED << inputVars, cliVars, patchVars, hostVars >>

\* line 86: sudo rm of the temp file; then lines 88-89
ModifyDownloadRm ==
    /\ command = "set-config"
    /\ pc = "download_rm"
    /\ \E o \in Outcomes :
          /\ calls' = Issued("download_rm", o)
          /\ is_connected' = Up(o)
          /\ remote' = IF Ran(o) THEN RemoteRm(remote, "download") ELSE remote
          /\ IF o = "ok"
             THEN /\ pc' = "modify"
                  /\ log' = log \cup {"downloaded"}
                  /\ retval' = retval
             ELSE DownloadFailed
    /\ UNCHANGED << timestamp, original_content, new_content, rendered_output >>
    /\ UNCHANGED << inputVars, cliVars, patchVars, hostVars >>

\* lines 98-129: the local patch of the fetched text
ModifyPatch ==
    /\ command = "set-config"
    /\ pc = "modify"
    /\ LET r == modify_setting(original_content, setting_key, setting_value)
       IN  /\ new_content' = r.modified_content
           /\ log' = log \cup (IF r.found THEN {"replaced"} ELSE {"appended"})
                         \cup (IF r.dups > 0 THEN {"duplicate_commented"} ELSE {})
    /\ pc' = "upload_put"
    /\ UNCHANGED << is_connected, timestamp, remote, original_content, calls,
                    retval, rendered_output >>
    /\ UNCHANGED << inputVars, cliVars, patchVars, hostVars >>

-----------------------------------------------------------------------------
(* Upload, restore, reconfigure and close: the same statements in both     *)
(* functions (lines 132-184 and 308-357), written once with the running    *)
(* command as parameter                                                    *)

\* a variant that returns False without trying the restore
UploadFailedNoRestore ==
    /\ log' = log \cup {"upload_failed"}
    /\ pc' = "finally"
    /\ retval' = "False"

\* a variant that tries the upload again after its first failures
UploadFailedRetries ==
    /\ log' = log \cup {"upload_failed"}
    /\ IF Len(SelectSeq(calls, LAMBDA c : c.op = "put")) < 2
       THEN /\ pc' = "upload_put"
            /\ retval' = retval
       ELSE IF create_backup
            THEN /\ pc' = "restore"
                 /\ retval' = retval
            ELSE /\ pc' = "finally"
                 /\ retval' = "False"

\* the except clause of lines 144-154 (320-329) up to the restore attempt
UploadFailed ==
    /\ log' = log \cup {"upload_failed"}
    /\ IF create_backup
       THEN /\ pc' = "restore"
            /\ retval' = retval
       ELSE /\ pc' = "finally"
            /\ retval' = "False"

\* line 138 (314): conn.put of the new text to the temp upload path
UploadPut(cmd) ==
    /\ command = cmd
    /\ pc = "upload_put"
    /\ \E o \in Outcomes :
          /\ calls' = Issued("put", o)
          /\ is_connected' = Up(o)
          /\ remote' = IF Ran(o)
                       THEN [remote EXCEPT !.upload = File(new_content)]
                       ELSE remote
          /\ IF o = "ok"
             THEN /\ pc' = "upload_chown"
                  /\ UNCHANGED << log, retval >>
             ELSE UploadFailed
    /\ UNCHANGED << timestamp, original_content, new_content, rendered_output >>
    /\ UNCHANGED << inputVars, cliVars, patchVars, hostVars >>

\* a variant that goes on to the chmod whatever the chown did
UploadChownUnchecked(cmd) ==
    /\ command = cmd
    /\ pc = "upload_chown"
    /\ \E o \in Outcomes :
          /\ calls' = Issued("upload_chown", o)
          /\ is_connected' = Up(o)
    /\ pc' = "upload_chmod"
    /\ UNCHANGED << log, retval >>
    /\ UNCHANGED << timestamp, remote, original_content, new_content,
                    rendered_output >>
    /\ UNCHANGED << inputVars, cliVars, patchVars, hostVars >>

\* line 140 (316): sudo chown root:root of the temp file
UploadChown(cmd) ==
    /\ command = cmd
    /\ pc = "upload_chown"
    /\ \E o \in Outcomes :
          /\ calls' = Issued("upload_chown", o)
          /\ is_connected' = Up(o)
          /\ IF o = "ok"
             THEN /\ pc' = "upload_chmod"
                  /\ UNCHANGED << log, retval >>
             ELSE UploadFailed
    /\ UNCHANGED << timestamp, remote, original_content, new_content,
                    rendered_output >>
    /\ UNCHANGED << inputVars, cliVars, patchVars, hostVars >>

\* line 141 (317): sudo chmod 600 of the temp file
UploadChmod(cmd) ==
    /\ command = cmd
    /\ pc = "upload_chmod"
    /\ \E o \in Outcomes :
          /\ calls' = Issued("upload_chmod", o)
          /\ is_connected' = Up(o)
          /\ IF o = "ok"
             THEN /\ pc' = "upload_mv"
                  /\ UNCHANGED << log, retval >>
             ELSE UploadFailed
    /\ UNCHANGED << timestamp, remote, original_content, new_content,
                    rendered_output >>
    /\ UNCHANGED << inputVars, cliVars, patchVars, hostVars >>

\* where the function goes after the upload: section 5 or `return True`
AfterUpload ==
    IF run_reconfigure
    THEN /\ pc' = "reconfigure"
         /\ retval' = retval
    ELSE /\ pc' = "finally"
         /\ retval' = "True"

\* a variant that takes the move for done however the call ended
UploadMvUnchecked(cmd) ==
    /\ command = cmd
    /\ pc = "upload_mv"
    /\ \E o \in Outcomes :
          /\ calls' = Issued("upload_mv", o)
          /\ is_connected' = Up(o)
          /\ remote' = IF Ran(o) THEN RemoteMv(remote, "upload", "rb") ELSE remote
    /\ log' = log \cup {"uploaded"} \cup
                 (IF run_reconfigure THEN {} ELSE {"success"})
    /\ AfterUpload
    /\ UNCHANGED << timestamp, original_content, new_content, rendered_output >>
    /\ UNCHANGED << inputVars, cliVars, patchVars, hostVars >>

\* lines 142-143 (318-319): sudo mv of the temp file onto gitlab.rb
UploadMv(cmd) ==
    /\ command = cmd
    /\ pc = "upload_mv"
    /\ \E o \in Outcomes :
          /\ calls' = Issued("upload_mv", o)
          /\ is_connected' = Up(o)
          /\ remote' = IF Ran(o) THEN RemoteMv(remote, "upload", "rb") ELSE remote
          /\ IF o = "ok"
             THEN /\ log' = log \cup {"uploaded"} \cup
                              (IF run_reconfigure THEN {} ELSE {"success"})
                  /\ AfterUpload
             ELSE UploadFailed
    /\ UNCHANGED << timestamp, original_content, new_content, rendered_output >>
    /\ UNCHANGED << inputVars, cliVars, patchVars, hostVars >>

\* a variant that moves the temp upload, not the backup, onto gitlab.rb
RestoreFromUpload(fs) == RemoteMv(fs, "upload", "rb")

\* a variant that removes the backup instead of moving it back
RestoreRemovesBackup(fs) == RemoteRm(fs, "bak")

\* the command of line 150 (325): sudo mv of the backup onto gitlab.rb
RestoreCommand(fs) == RemoteMv(fs, "bak", "rb")

\* lines 147-154 (322-329): one restore attempt, then `return False`; a
\* connection that went down is opened again by the call itself
Restore(cmd) ==
    /\ command = cmd
    /\ pc = "restore"
    /\ \E o \in Outcomes :
          /\ calls' = Issued("restore_mv", o)
          /\ is_connected' = Up(o)
          /\ remote' = IF Ran(o) THEN RestoreCommand(remote) ELSE remote
          /\ log' = log \cup { IF o = "ok" THEN "backup_restored"
                               ELSE "critical_manual_intervention" }
    /\ pc' = "finally"
    /\ retval' = "False"
    /\ UNCHANGED << timestamp, original_content, new_content, rendered_output >>
    /\ UNCHANGED << inputVars, cliVars, patchVars, hostVars >>

\* a variant that does not look at result.ok
ReconfigureIgnoresExit(cmd) ==
    /\ command = cmd
    /\ pc = "reconfigure"
    /\ \E o \in {"ok", "NonZeroExit", "ConnectionLost"} :
          /\ calls' = Issued("reconfigure", o)
          /\ is_connected' = Up(o)
          /\ log' = log \cup ( IF o = "ConnectionLost"
                               THEN {"operation_error"}
                               ELSE {"reconfigured", "success"} )
          /\ retval' = IF o = "ConnectionLost" THEN "False" ELSE "True"
    /\ pc' = "finally"
    /\ UNCHANGED << timestamp, remote, original_content, new_content,
                    rendered_output >>
    /\ UNCHANGED << inputVars, cliVars, patchVars, hostVars >>

\* lines 160-176 (335-349): warn=True turns a non-zero exit into result.ok
\* being false; any other exception reaches the outer handler
Reconfigure(cmd) ==
    /\ command = cmd
    /\ pc = "reconfigure"
    /\ \E o \in {"ok", "NonZeroExit", "ConnectionLost"} :
          /\ calls' = Issued("reconfigure", o)
          /\ is_connected' = Up(o)
          /\ log' = log \cup ( CASE o = "ok" -> {"reconfigured", "success"}
                                 [] o = "NonZeroExit" -> {"reconfigure_failed"}
                                 [] OTHER -> {"operation_error"} )
          /\ retval' = IF o = "ok" THEN "True" ELSE "False"
    /\ pc' = "finally"
    /\ UNCHANGED << timestamp, remote, original_content, new_content,
                    rendered_output >>
    /\ UNCHANGED << inputVars, cliVars, patchVars, hostVars >>

\* a variant without the close
FinallyWithoutClose(cmd) ==
    /\ command = cmd
    /\ pc = "finally"
    /\ pc' = "returned"
    /\ UNCHANGED << calls, is_connected, timestamp, remote, original_content,
                    new_content, log, retval, rendered_output >>
    /\ UNCHANGED << inputVars, cliVars, patchVars, hostVars >>

\* lines 181-184 (354-357): the finally clause
Finally(cmd) ==
    /\ command = cmd
    /\ pc = "finally"
    /\ IF is_connected
       THEN /\ calls' = Append(calls, [op |-> "close", ok |-> TRUE])
            /\ is_connected' = FALSE
       ELSE UNCHANGED << calls, is_connected >>
    /\ pc' = "returned"
    /\ UNCHANGED << timestamp, remote, original_content, new_content, log,
                    retval, rendered_output >>
    /\ UNCHANGED << inputVars, cliVars, patchVars, hostVars >>

ModifyUploadPut == UploadPut("set-config")
ModifyUploadChown == UploadChown("set-config")
ModifyUploadChmod == UploadChmod("set-config")
ModifyUploadMv == UploadMv("set-config")
ModifyRestore == Restore("set-config")
ModifyReconfigure == Reconfigure("set-config")
ModifyFinally == Finally("set-config")

-----------------------------------------------------------------------------
(* apply_gitlab_rb_template, config.py lines 249-357 *)

\* a variant that connects whatever the renderer returned
ApplyRenderThenConnectAnyway ==
    /\ command = "apply-template"
    /\ pc = "start"
    /\ LET r == render_template_locally(template_file, vars_file, template_body)
       IN  /\ log' = log \cup (IF r = << >> THEN {"render_failed"} ELSE {"rendered"})
           /\ new_content' = IF r = << >> THEN << >> ELSE r[1]
    /\ pc' = "connect"
    /\ retval' = retval
    /\ timestamp' = "ts"
    /\ UNCHANGED << is_connected, remote, original_content, calls,
                    rendered_output >>
    /\ UNCHANGED << inputVars, cliVars, patchVars, hostVars >>

\* lines 277-290: render first; None returns False before any Connection
ApplyRender ==
    /\ command = "apply-template"
    /\ pc = "start"
    /\ LET r == render_template_locally(template_file, vars_file, template_body)
       IN  IF r = << >>
           THEN /\ log' = log \cup {"render_failed"}
                /\ pc' = "returned"
                /\ retval' = "False"
                /\ UNCHANGED << new_content, timestamp >>
           ELSE /\ log' = log \cup {"rendered"}
                /\ pc' = "connect"
                /\ retval' = retval
                /\ new_content' = r[1]
                /\ timestamp' = "ts"
    /\ UNCHANGED << is_connected, remote, original_content, calls,
                    rendered_output >>
    /\ UNCHANGED << inputVars, cliVars, patchVars, hostVars >>

\* line 294: conn.run("uname -a")
ApplyConnect ==
    /\ command = "apply-template"
    /\ pc = "connect"
    /\ \E o \in {"ok", "OpenFailed", "UnexpectedExit"} :
          /\ calls' = Issued("uname", o)
          /\ is_connected' = (o # "OpenFailed")
          /\ IF o = "ok"
             THEN /\ pc' = IF create_backup THEN "backup" ELSE "upload_put"
                  /\ log' = log \cup {"connection_successful"}
                  /\ retval' = retval
             ELSE /\ pc' = "finally"
                  /\ log' = log \cup {"operation_error"}
                  /\ retval' = "False"
    /\ UNCHANGED << timestamp, remote, original_content, new_content,
                    rendered_output >>
    /\ UNCHANGED << inputVars, cliVars, patchVars, hostVars >>

\* lines 298-306
ApplyBackup ==
    /\ command = "apply-template"
    /\ pc = "backup"
    /\ \E o \in Outcomes :
          /\ calls' = Issued("backup_cp", o)
          /\ is_connected' = Up(o)
          /\ remote' = IF Ran(o) THEN RemoteCp(remote, "rb", "bak") ELSE remote
          /\ log' = log \cup { CASE o = "ok" -> "backup_created"
                                 [] o = "UnexpectedExit" -> "backup_failed"
                                 [] OTHER -> "operation_error" }
          /\ pc' = IF o = "ok" THEN "upload_put" ELSE "finally"
          /\ retval' = IF o = "ok" THEN retval ELSE "False"
    /\ UNCHANGED << timestamp, original_content, new_content, rendered_output >>
    /\ UNCHANGED << inputVars, cliVars, patchVars, hostVars >>

ApplyUploadPut == UploadPut("apply-template")
ApplyUploadChown == UploadChown("apply-template")
ApplyUploadChmod == UploadChmod("apply-template")
ApplyUploadMv == UploadMv("apply-template")
ApplyRestore == Restore("apply-template")
ApplyReconfigure == Reconfigure("apply-template")
ApplyFinally == Finally("apply-template")

-----------------------------------------------------------------------------
(* The command line, cli.py *)

\* set_config lines 41-47 and apply_template_cmd lines 130-134: one status
\* line and the exit code
ReportResult ==
    /\ command \in {"set-config", "apply-template"}
    /\ pc = "returned"
    /\ status' = Append(status, IF retval = "True" THEN "success" ELSE "failure")
    /\ exit_code' = IF retval = "True" THEN "0" ELSE "1"
    /\ pc' = "exited"
    /\ UNCHANGED << is_connected, timestamp, remote, original_content,
                    new_content, calls, log, retval, rendered_output >>
    /\ UNCHANGED << inputVars, patchVars, hostVars >>

\* apply_template_cmd lines 85-88: render, then the success line is printed
\* whatever the renderer returned
RenderOnly ==
    /\ command = "render-only"
    /\ pc = "start"
    /\ rendered_output' =
          render_template_locally(template_file, vars_file, template_body)
    /\ log' = log \cup (IF rendered_output' = << >>
                        THEN {"render_failed"} ELSE {"rendered"})
    /\ status' = Append(status, "success")
    /\ pc' = "render_report"
    /\ UNCHANGED << is_connected, timestamp, remote, original_content,
                    new_content, calls, retval, exit_code >>
    /\ UNCHANGED << inputVars, patchVars, hostVars >>

\* apply_template_cmd lines 89-105
RenderOnlyReport ==
    /\ command = "render-only"
    /\ pc = "render_report"
    /\ IF rendered_output # << >>
       THEN CASE result_file = "none" ->
                   /\ status' = status
                   /\ exit_code' = "0"
              [] result_file = "writable" ->
                   /\ status' = Append(status, "saved")
                   /\ exit_code' = "0"
              [] OTHER ->
                   /\ status' = Append(status, "failure")
                   /\ exit_code' = "1"
       ELSE /\ status' = Append(status, "failure")
            /\ exit_code' = "1"
    /\ pc' = "exited"
    /\ UNCHANGED << is_connected, timestamp, remote, original_content,
                    new_content, calls, log, retval, rendered_output >>
    /\ UNCHANGED << inputVars, patchVars, hostVars >>

-----------------------------------------------------------------------------

Next ==
    \/ ModifyConnect
    \/ ModifyBackup
    \/ ModifyOpenSftp
    \/ ModifyDownloadCp
    \/ ModifyDownloadChown
    \/ ModifyDownloadGet
    \/ ModifyDownloadRm
    \/ ModifyPatch
    \/ ModifyUploadPut
    \/ ModifyUploadChown
    \/ ModifyUploadChmod
    \/ ModifyUploadMv
    \/ ModifyRestore
    \/ ModifyReconfigure
    \/ ModifyFinally
    \/ ApplyRender
    \/ ApplyConnect
    \/ ApplyBackup
    \/ ApplyUploadPut
    \/ ApplyUploadChown
    \/ ApplyUploadChmod
    \/ ApplyUploadMv
    \/ ApplyRestore
    \/ ApplyReconfigure
    \/ ApplyFinally
    \/ ReportResult
    \/ RenderOnly
    \/ RenderOnlyReport

Spec == Init /\ [][Next]_vars

-----------------------------------------------------------------------------
(* Vocabulary of the properties *)

\* the function has returned to the command line
Returned == pc \in {"returned", "exited"}

\* the return value is decided (the finally clause may still be pending)
Decided == retval # "pending"

Issue(op) == { i \in 1..Len(calls) : calls[i].op = op }
Succeeded(op) == \E i \in Issue(op) : calls[i].ok
Failed(op) == \E i \in Issue(op) : ~calls[i].ok

UploadOps == {"put", "upload_chown", "upload_chmod", "upload_mv"}
DownloadOps == {"sftp", "download_cp", "download_chown", "get", "download_rm"}
Pipelines == {"set-config", "apply-template"}

UploadFailure == \E op \in UploadOps : Failed(op)

-----------------------------------------------------------------------------
(* C1 *)

\* C1: in both pipelines the session is closed when the run returns its
\* result, on every exit path, and no remote call is issued after the close.
C1_SessionClosedOnEveryPath ==
    /\ Returned => ~is_connected
    /\ \A i \in Issue("close") : i = Len(calls)

\* a run whose upload and restore both failed returned with the session closed
C1_Witness ==
    /\ Returned
    /\ calls # << >>
    /\ calls[Len(calls)].op = "close"
    /\ "critical_manual_intervention" \in log

-----------------------------------------------------------------------------
(* C2 *)

\* C2: with a backup requested, gitlab.rb is changed (by the move of the
\* upload or by the restore) only after the backup copy succeeded, and a
\* failed backup step is followed by no call but the close, with result False.
C2_FailClosedBackup ==
    create_backup =>
        /\ \A i \in Issue("upload_mv") \cup Issue("restore_mv") :
              \E j \in Issue("backup_cp") : j < i /\ calls[j].ok
        /\ remote.rb # File(pre_run) => Succeeded("backup_cp")
        /\ \A j \in Issue("backup_cp") :
              ~calls[j].ok =>
                  /\ retval = "False"
                  /\ \A i \in (j + 1)..Len(calls) : calls[i].op = "close"

\* a run whose backup step failed has returned
C2_Witness ==
    /\ Returned
    /\ create_backup
    /\ Failed("backup_cp")
    /\ remote.rb = File(pre_run)

-----------------------------------------------------------------------------
(* C3 *)

\* C3: after an upload failure the restore is attempted once if a backup was
\* created in this run and not at all otherwise, the result is False either
\* way, and a failed restore is logged as the critical condition while a
\* successful one is not; without an upload failure no restore is attempted.
C3_RestoreOnUploadFailure ==
    /\ (Returned /\ "upload_failed" \in log) =>
          /\ Cardinality(Issue("restore_mv")) =
                (IF Succeeded("backup_cp") THEN 1 ELSE 0)
          /\ retval = "False"
          /\ Failed("restore_mv") <=> "critical_manual_intervention" \in log
          /\ Succeeded("restore_mv") <=> "backup_restored" \in log
    /\ Issue("restore_mv") # {} => "upload_failed" \in log
    /\ UploadFailure <=> "upload_failed" \in log

\* a run whose chmod failed and whose restore failed has returned
C3_Witness ==
    /\ Returned
    /\ Failed("upload_chmod")
    /\ Failed("restore_mv")
    /\ "critical_manual_intervention" \in log

-----------------------------------------------------------------------------
(* C4 *)

\* C4 as stated: whenever the upload fails after a backup was created, the
\* run ends with gitlab.rb holding its pre-run content and result False.
C4_Original ==
    (Returned /\ UploadFailure /\ Succeeded("backup_cp")) =>
        /\ remote.rb = File(pre_run)
        /\ retval = "False"

\* C4 amended: whenever the upload fails after a backup was created, the
\* result is False; if the restore succeeded gitlab.rb holds its pre-run
\* content; if the restore failed gitlab.rb holds its pre-run content or the
\* text of this run's upload, and the critical condition is logged.
C4_RestoredWhenRestoreSucceeds ==
    (Returned /\ UploadFailure /\ Succeeded("backup_cp")) =>
        /\ retval = "False"
        /\ Succeeded("restore_mv") => remote.rb = File(pre_run)
        /\ Failed("restore_mv") =>
              /\ remote.rb \in {File(pre_run), File(new_content)}
              /\ "critical_manual_intervention" \in log

\* the move ran on the host but raised, and the restore brought the old text back
C4_Witness ==
    /\ Returned
    /\ Succeeded("backup_cp")
    /\ Failed("upload_mv")
    /\ Succeeded("restore_mv")
    /\ remote.upload = NoFile
    /\ remote.rb = File(pre_run)

-----------------------------------------------------------------------------
(* C5 *)

\* C5: in the Setting Patcher without a backup, when every remote call
\* succeeds the run returns True with gitlab.rb holding the patched text.
C5_NoBackupRunSucceeds ==
    ( /\ command = "set-config"
      /\ ~create_backup
      /\ Returned
      /\ \A i \in 1..Len(calls) : calls[i].ok ) =>
        /\ retval = "True"
        /\ Succeeded("upload_mv")
        /\ remote.rb =
              File(modify_setting(pre_run, setting_key, setting_value).modified_content)

-----------------------------------------------------------------------------
(* C6 *)

\* C6 as stated: once the backup step succeeded the backup path holds the
\* pre-run content in every later state of the run.
C6_Original ==
    Succeeded("backup_cp") => remote.bak = File(pre_run)

\* C6 amended: once the backup step succeeded, the backup path holds the
\* pre-run content in every later state of the run, except that the
\* compensating restore moves the backup onto gitlab.rb: after a restore
\* that ran, the backup path is empty and gitlab.rb holds the pre-run content.
\* No other call overwrites or removes the backup.
C6_BackupKeptUntilRestore ==
    Succeeded("backup_cp") =>
        \/ remote.bak = File(pre_run)
        \/ /\ Issue("restore_mv") # {}
           /\ remote.bak = NoFile
           /\ remote.rb = File(pre_run)

\* a successful run with a backup and a reconfigure has the backup in place
C6_Witness ==
    /\ Returned
    /\ retval = "True"
    /\ Succeeded("backup_cp")
    /\ Succeeded("reconfigure")
    /\ remote.bak = File(pre_run)
    /\ remote.rb # File(pre_run)

-----------------------------------------------------------------------------
(* C7 *)

\* C7: when the reconfigure fails after a successful upload the result is
\* False, gitlab.rb keeps the uploaded text, no restore is attempted and the
\* backup, if one was requested, is still in place.
C7_ActivationFailureKeepsUpload ==
    (Failed("reconfigure") /\ Succeeded("upload_mv")) =>
        /\ retval = "False"
        /\ remote.rb = File(new_content)
        /\ Issue("restore_mv") = {}
        /\ remote.bak = (IF create_backup THEN File(pre_run) ELSE NoFile)

\* a run with a backup whose reconfigure exited non-zero has returned
C7_Witness ==
    /\ Returned
    /\ create_backup
    /\ Failed("reconfigure")
    /\ "reconfigure_failed" \in log
    /\ remote.rb = File(new_content)

-----------------------------------------------------------------------------
(* C8 *)

\* C8: after a failed call only the close follows, except that one restore
\* may follow a failed upload call; a run with a failed stage has result
\* False; a failed liveness check or a failed fetch leaves gitlab.rb as it
\* was and no upload call is issued.
C8_StagesShortCircuit ==
    /\ \A i \in 1..Len(calls) :
          ~calls[i].ok =>
              /\ retval = "False" \/ pc = "restore"
              /\ \A j \in (i + 1)..Len(calls) :
                    \/ calls[j].op = "close"
                    \/ /\ calls[j].op = "restore_mv"
                       /\ calls[i].op \in UploadOps
    /\ Cardinality(Issue("restore_mv")) <= 1
    /\ (Failed("uname") \/ "download_failed" \in log) =>
          /\ retval = "False"
          /\ remote.rb = File(pre_run)
          /\ \A op \in UploadOps \cup {"restore_mv", "reconfigure"} : Issue(op) = {}
    /\ (\E op \in DownloadOps : Failed(op)) => "download_failed" \in log

\* a run whose download of the temp file failed has returned
C8_Witness ==
    /\ Returned
    /\ Failed("get")
    /\ retval = "False"
    /\ calls[Len(calls)].op = "close"

-----------------------------------------------------------------------------
(* C9 *)

\* C9: the Template Applier issues its first remote call only after a
\* successful local render; when the render fails the result is False and no
\* call was issued; the render-only command never issues a call nor has a
\* connection.
C9_RenderBeforeNetwork ==
    /\ (command = "apply-template" /\ (calls # << >> \/ is_connected)) =>
          /\ render_template_locally(template_file, vars_file, template_body) # << >>
          /\ "rendered" \in log
    /\ (command = "apply-template" /\ "render_failed" \in log) =>
          /\ retval = "False"
          /\ calls = << >>
          /\ ~is_connected
    /\ (command = "apply-template" /\ pc # "start"
          /\ render_template_locally(template_file, vars_file, template_body) = << >>) =>
          "render_failed" \in log
    /\ command = "render-only" => (calls = << >> /\ ~is_connected)

\* an apply-template run whose variable file is malformed has ended
C9_Witness ==
    /\ command = "apply-template"
    /\ vars_file = "malformed"
    /\ pc = "exited"
    /\ retval = "False"
    /\ calls = << >>

-----------------------------------------------------------------------------
(* C10 *)

NoLineMatches(doc, k) ==
    \A n \in 1..Len(splitlines(doc)) : ~pattern_match(splitlines(doc)[n], k)

\* C10 as stated: for a document with no line matching the key, the result is
\* the document's lines plus two lines, the comment and `K = V`.
C10_Original ==
    (patched # << >> /\ NoLineMatches(document, setting_key)) =>
        /\ splitlines(patched[1].modified_content) =
              splitlines(document)
                 \o << AddedComment, new_line(setting_key, setting_value) >>
        /\ ~patched[1].found

\* C10 amended: for a document with no line matching the key, the result is
\* the document's lines followed by exactly three lines: an empty line, the
\* provenance comment and `K = V`, each terminated, with outcome Appended;
\* for the empty document the result is those three lines.
C10_AppendsBlankCommentAndLine ==
    (patched # << >> /\ NoLineMatches(document, setting_key)) =>
        /\ splitlines(patched[1].modified_content) =
              splitlines(document)
                 \o << << >>, AddedComment, new_line(setting_key, setting_value) >>
        /\ patched[1].modified_content[Len(patched[1].modified_content)] = NL
        /\ ~patched[1].found
        /\ patched[1].dups = 0
        /\ document = << >> =>
              patched[1].modified_content =
                 << NL >> \o AddedComment \o << NL >>
                    \o new_line(setting_key, setting_value) \o << NL >>

\* a commented line of another key: nothing matches, and the text is appended
C10_Witness ==
    /\ patched # << >>
    /\ document = << "#", " ", "x", NL >>
    /\ setting_key = << "k" >>
    /\ ~patched[1].found

-----------------------------------------------------------------------------
(* Vocabulary of the patch properties *)

\* the lines of the input document and of the first run's result
InLines == splitlines(document)
OutLines == splitlines(patched[1].modified_content)

\* the input lines the pattern matches
MatchAt == { n \in 1..Len(InLines) : pattern_match(InLines[n], setting_key) }
FirstMatch == CHOOSE n \in MatchAt : \A m \in MatchAt : n <= m

\* the line `K = V`, written out
CanonicalLine == setting_key \o << " ", "=", " " >> \o setting_value

\* the line "# " + the trimmed text of a line
Disabled(line) == << "#", " " >> \o strip(line)

\* a line that starts, after its blanks, with the key itself
Live(line, k) == StartsWithAt(lstrip(line), 1, k)

RECURSIVE TrailingNLs(_)
TrailingNLs(s) ==
    IF s # << >> /\ s[Len(s)] = NL
    THEN 1 + TrailingNLs(SubSeq(s, 1, Len(s) - 1))
    ELSE 0

-----------------------------------------------------------------------------
(* C11 *)

\* C11: for a document with exactly one line matching the key, the result
\* has the same number of lines, that line is exactly `K = V`, every other
\* line is unchanged and in place, and the outcome is Replaced with no
\* duplicate.
C11_SingleMatchReplaced ==
    (patched # << >> /\ Cardinality(MatchAt) = 1) =>
        /\ Len(OutLines) = Len(InLines)
        /\ \A n \in 1..Len(InLines) :
              OutLines[n] = (IF n \in MatchAt THEN CanonicalLine ELSE InLines[n])
        /\ patched[1].found
        /\ patched[1].dups = 0

\* a commented directive after another line was replaced
C11_Witness ==
    /\ patched # << >>
    /\ document = << "x", NL, "#", "k" >>
    /\ setting_key = << "k" >>
    /\ patched[1].modified_content = << "x", NL, "k", " ", "=", " ", "v", NL >>

-----------------------------------------------------------------------------
(* C12 *)

\* C12: for a document with N > 1 lines matching the key, the first match
\* becomes `K = V`, each other match becomes "# " followed by its trimmed
\* text, every other line is unchanged, N - 1 duplicates are counted, and the
\* only uncommented line of the result that matches the key is the first match.
C12_DuplicatesDisabled ==
    (patched # << >> /\ Cardinality(MatchAt) > 1) =>
        /\ Len(OutLines) = Len(InLines)
        /\ \A n \in 1..Len(InLines) :
              OutLines[n] = ( IF n = FirstMatch THEN CanonicalLine
                              ELSE IF n \in MatchAt THEN Disabled(InLines[n])
                              ELSE InLines[n] )
        /\ patched[1].found
        /\ patched[1].dups = Cardinality(MatchAt) - 1
        /\ { n \in 1..Len(OutLines) : Live(OutLines[n], setting_key) } = {FirstMatch}

\* a first match and an indented second one
C12_Witness ==
    /\ patched # << >>
    /\ document = << "k", NL, " ", "k" >>
    /\ setting_key = << "k" >>
    /\ patched[1].dups = 1
    /\ patched[1].modified_content =
          << "k", " ", "=", " ", "v", NL, "#", " ", "k", NL >>

-----------------------------------------------------------------------------
(* C13 *)

\* C13: when at least one line of the document matches the key, a second run
\* of the patch on the first run's result gives that result again.
C13_IdempotentWhenReplaced ==
    (Len(patched) >= 2 /\ patched[1].found) =>
        patched[2].modified_content = patched[1].modified_content

-----------------------------------------------------------------------------
(* C14 *)

\* C14 as stated: the result of the patch ends with exactly one line
\* terminator, whatever the input ends with.
C14_Original ==
    patched # << >> => TrailingNLs(patched[1].modified_content) = 1

\* C14 amended: the result of the patch always ends with a line terminator;
\* it ends with exactly one on the Appended path, and on the Replaced path
\* when the input ends with no or one terminator; on the Replaced path an
\* input ending with n > 1 terminators gives a result ending with n.
C14_TrailingNewlines ==
    patched # << >> =>
        TrailingNLs(patched[1].modified_content) =
            ( IF patched[1].found /\ TrailingNLs(document) > 1
              THEN TrailingNLs(document)
              ELSE 1 )

\* a replaced line in a document that had no final terminator
C14_Witness ==
    /\ patched # << >>
    /\ document = << "x", NL, "k" >>
    /\ setting_key = << "k" >>
    /\ patched[1].found
    /\ TrailingNLs(patched[1].modified_content) = 1

-----------------------------------------------------------------------------
(* C20 *)

\* a line with two comment markers before anything else
DoubleMarked(line) ==
    /\ StartsWithAt(lstrip(line), 1, << "#" >>)
    /\ StartsWithAt(lstrip(Tail(lstrip(line))), 1, << "#" >>)

\* a line that starts, after its blanks and at most one marker, with an
\* identifier of which the key is a strict prefix
LongerIdentifier(line, k) ==
    \E c \in {"k", "x"} :
        \/ StartsWithAt(lstrip(line), 1, Append(k, c))
        \/ /\ StartsWithAt(lstrip(line), 1, << "#" >>)
           /\ StartsWithAt(lstrip(Tail(lstrip(line))), 1, Append(k, c))

\* C20: a line whose identifier has the key as a strict prefix matches the
\* key: it becomes `K = V` when it is the first match and "# " followed by
\* its trimmed text when it is a later one; a line with two comment markers
\* before the key does not match and is left as it is.
C20_PrefixMatching ==
    patched # << >> =>
        \A n \in 1..Len(InLines) :
            /\ LongerIdentifier(InLines[n], setting_key) =>
                  /\ n \in MatchAt
                  /\ OutLines[n] = ( IF n = FirstMatch THEN CanonicalLine
                                     ELSE Disabled(InLines[n]) )
            /\ DoubleMarked(InLines[n]) =>
                  /\ n \notin MatchAt
                  /\ OutLines[n] = InLines[n]

\* the key "k" and, after its own line, a line of the longer identifier "kx"
C20_Witness ==
    /\ patched # << >>
    /\ setting_key = << "k" >>
    /\ document = << "k", NL, "k", "x" >>
    /\ patched[1].modified_content =
          << "k", " ", "=", " ", "v", NL, "#", " ", "k", "x", NL >>

-----------------------------------------------------------------------------
(* Vocabulary of the render properties *)

\* render_template_locally has been called and has returned
RenderDone == command \in {"apply-template", "render-only"} /\ pc # "start"

\* what it returned: << >> for None
RenderResult ==
    IF command = "render-only" THEN rendered_output
    ELSE IF "rendered" \in log THEN << new_content >>
    ELSE << >>

-----------------------------------------------------------------------------
(* C15 *)

-----------------------------------------------------------------------------
(* C16 *)

\* C16 as stated: with a valid template, rendering with an empty variable
\* file and rendering with an absent one both succeed.
C16_Original ==
    (RenderDone /\ template_file = "valid" /\ vars_file \in {"empty", "absent"}) =>
        /\ RenderResult # << >>
        /\ "render_failed" \notin log

\* C16 amended: rendering with an empty variable file loads the empty mapping
\* and, with a valid template, succeeds; rendering with an absent variable
\* file returns None, a render failure, whatever the template.
C16_EmptyLoadsAbsentFails ==
    /\ (RenderDone /\ vars_file = "empty") =>
          /\ load_vars(vars_file) = << EmptyMapping >>
          /\ template_file = "valid" =>
                (RenderResult # << >> /\ "render_failed" \notin log)
    /\ (RenderDone /\ vars_file = "absent") =>
          /\ RenderResult = << >>
          /\ "render_failed" \in log
          /\ command = "apply-template" => (retval = "False" /\ calls = << >>)
          /\ pc = "exited" => exit_code = "1"

\* an apply-template run with an empty variable file that went on to connect
C16_Witness ==
    /\ command = "apply-template"
    /\ vars_file = "empty"
    /\ "rendered" \in log
    /\ Succeeded("uname")

-----------------------------------------------------------------------------
(* C17 *)

-----------------------------------------------------------------------------
(* C18 *)

\* C18: an invocation that exits with code 1 has printed one status line, the
\* failure line, and an invocation that exits with code 0 has printed no
\* failure line; every invocation exits with 0 or 1, 0 exactly when the
\* pipeline returned True or the render-only output was produced.
C18_SingleStatusLine ==
    pc = "exited" =>
        /\ exit_code \in {"0", "1"}
        /\ exit_code = "1" => status = << "failure" >>
        /\ exit_code = "0" => \A n \in 1..Len(status) : status[n] # "failure"
        /\ command \in Pipelines => (exit_code = "0" <=> retval = "True")

-----------------------------------------------------------------------------
(* C19 *)

\* C19: every move onto gitlab.rb comes after a successful write of the temp
\* file, a successful chown and a successful chmod, in that order; after a
\* failed write, chown or chmod no move is issued; and gitlab.rb holds a text
\* other than its pre-run content only if the move was issued, and then it
\* holds the text of the temp upload.
C19_UploadOrdering ==
    /\ \A i \in Issue("upload_mv") :
          \E a \in Issue("put"), b \in Issue("upload_chown"),
             c \in Issue("upload_chmod") :
                /\ a < b /\ b < c /\ c < i
                /\ calls[a].ok /\ calls[b].ok /\ calls[c].ok
    /\ (Failed("put") \/ Failed("upload_chown") \/ Failed("upload_chmod")) =>
          Issue("upload_mv") = {}
    /\ remote.rb # File(pre_run) =>
          /\ Issue("upload_mv") # {}
          /\ remote.rb = File(new_content)

\* a Template Applier run whose move put the rendered text in place
C19_Witness ==
    /\ command = "apply-template"
    /\ Succeeded("upload_mv")
    /\ remote.rb = File(new_content)
    /\ remote.rb # File(pre_run)

-----------------------------------------------------------------------------
(* C21 *)

\* Both functions are straight-line code: a statement that has returned or
\* raised is followed by the next statement, the handler or the return, so a
\* run that can take a step takes it.
FairSpec == Init /\ [][Next]_vars /\ WF_vars(Next)

\* the remote operations of a run, the close apart
RemoteOps == {"uname", "backup_cp", "restore_mv", "reconfigure"}
                 \cup DownloadOps \cup UploadOps

\* C21: every run of either pipeline eventually returns True or False, and
\* within a run each remote operation (liveness check, backup copy, each
\* fetch step, each upload step, restore, activation) is issued at most once.
C21_NoRetriesAndCompletion ==
    /\ [](\A op \in RemoteOps : Cardinality(Issue(op)) <= 1)
    /\ (command \in Pipelines) ~> (Returned /\ retval \in {"True", "False"})

\* a patcher run that fetched, failed at the move, restored and returned
C21_Witness ==
    /\ command = "set-config"
    /\ Returned
    /\ retval = "False"
    /\ \A op \in DownloadOps \cup UploadOps \cup {"uname", "backup_cp", "restore_mv"} :
          Cardinality(Issue(op)) = 1
    /\ Failed("upload_mv")

-----------------------------------------------------------------------------
(* C22 *)

\* C22: a run of either pipeline returns True only if the move of the temp
\* upload onto gitlab.rb was issued exactly once and succeeded, no restore was
\* attempted, the reconfigure (if requested) exited with status zero, and
\* gitlab.rb holds exactly the patched or rendered text of this run; and a run
\* that returns False without having issued the move has left the content of
\* gitlab.rb as it was before the run.
C22_SuccessMeansInstalled ==
    (command \in Pipelines /\ Returned) =>
        /\ retval = "True" =>
              /\ Cardinality(Issue("upload_mv")) = 1
              /\ Succeeded("upload_mv")
              /\ Issue("restore_mv") = {}
              /\ run_reconfigure => Succeeded("reconfigure")
              /\ remote.rb = File(new_content)
        /\ (retval = "False" /\ Issue("upload_mv") = {}) =>
              remote.rb = File(pre_run)

\* a template run with a reconfigure returned True and gitlab.rb changed
C22_Witness ==
    /\ command = "apply-template"
    /\ Returned
    /\ retval = "True"
    /\ run_reconfigure
    /\ Succeeded("reconfigure")
    /\ remote.rb = File(new_content)
    /\ remote.rb # File(pre_run)

\* a run whose chown failed was restored and returned False before any move
C22_FailureWitness ==
    /\ Returned
    /\ retval = "False"
    /\ Failed("upload_chown")
    /\ Issue("restore_mv") # {}
    /\ Issue("upload_mv") = {}

-----------------------------------------------------------------------------
(* Two invocations against one host.  Each invocation runs one of the two  *)
(* functions with its own Connection and its own locals; the host's files  *)
(* are shared, and every path but gitlab.rb is named after the second in   *)
(* which the function read the clock (config.py lines 63-64, 82, 136 and   *)
(* 290, 297, 313).  A command whose source file is missing cannot succeed. *)

\* how many seconds the clock can show
MaxClock == 2

Runs == {1, 2}

\* GITLAB_RB_PATH, and the paths of lines 64 (297), 82 and 136 (313)
GITLAB_RB_PATH == << "rb", 0 >>
backup_path(ts) == << "bak", ts >>
tmp_path(ts) == << "download", ts >>
tmp_upload_path(ts) == << "upload", ts >>

HostPaths ==
    {GITLAB_RB_PATH}
        \cup { << k, t >> : k \in {"bak", "download", "upload"}, t \in 1..MaxClock }

\* gitlab.rb before the two invocations
HostDoc == << "k", " ", "o", NL >>

\* the locals of an invocation that has not started
NewRun(cmd, backup, reconfigure, key) ==
    [ command |-> cmd,
      create_backup |-> backup,
      run_reconfigure |-> reconfigure,
      setting_key |-> key,
      pc |-> IF cmd = "set-config" THEN "connect" ELSE "render",
      is_connected |-> FALSE,
      timestamp |-> 0,
      original_content |-> << >>,
      new_content |-> << >>,
      retval |-> "pending",
      backed_up |-> NoFile,
      paths |-> {} ]

HostInit ==
    /\ IdlePipeline
    /\ document = << >>
    /\ setting_key = << "k" >>
    /\ patched = << >>
    /\ clock = 1
    /\ host = [ p \in HostPaths |-> IF p = GITLAB_RB_PATH THEN File(HostDoc) ELSE NoFile ]
    /\ \E c1 \in Pipelines, c2 \in Pipelines, b1 \in BOOLEAN, b2 \in BOOLEAN,
          g \in BOOLEAN :
          runs = [ r \in Runs |->
                     IF r = 1 THEN NewRun(c1, b1, g, << "k" >>)
                     ELSE NewRun(c2, b2, g, << "k", "x" >>) ]

HostFrame == UNCHANGED << pipelineVars, patchVars >>

\* a second passes
ClockTick ==
    /\ clock < MaxClock
    /\ clock' = clock + 1
    /\ UNCHANGED << host, runs >>
    /\ HostFrame

\* a command that reads the file at `from` exits non-zero when it is missing
CanEnd(o, from) == o = "ok" => host[from] # NoFile

\* the command changed the host's files
TookEffect(o, from) == Ran(o) /\ host[from] # NoFile

\* the handlers that end the function with False
RunFailed(run) == [run EXCEPT !.pc = "finally", !.retval = "False"]

\* the except clause of the upload, lines 144-154 (320-329)
RunUploadFailed(run) ==
    IF run.create_backup THEN [run EXCEPT !.pc = "restore"] ELSE RunFailed(run)

\* lines 277-290: render_template_locally, then timestamp = datetime.now()
RunRender(r) ==
    /\ runs[r].pc = "render"
    /\ LET out == render_template_locally("valid", "valid", << "x" >>)
       IN  runs' = [runs EXCEPT ![r] = [@ EXCEPT !.new_content = out[1],
                                                  !.timestamp = clock,
                                                  !.pc = "connect"]]
    /\ UNCHANGED << clock, host >>
    /\ HostFrame

\* line 58 (294): conn.run("uname -a")
RunConnect(r) ==
    /\ runs[r].pc = "connect"
    /\ \E o \in {"ok", "OpenFailed", "UnexpectedExit"} :
          LET run == [runs[r] EXCEPT !.is_connected = (o # "OpenFailed")]
          IN  runs' = [runs EXCEPT ![r] =
                 IF o # "ok" THEN RunFailed(run)
                 ELSE [run EXCEPT !.pc =
                          IF run.create_backup THEN "backup"
                          ELSE IF run.command = "set-config" THEN "download"
                          ELSE "upload_put"]]
    /\ UNCHANGED << clock, host >>
    /\ HostFrame

\* lines 62-72 (297-306): set-config reads the clock here, apply-template
\* has read it at line 290; then sudo cp gitlab.rb to the backup path
RunBackup(r) ==
    /\ runs[r].pc = "backup"
    /\ LET ts == IF runs[r].command = "set-config" THEN clock ELSE runs[r].timestamp
       IN  \E o \in Outcomes :
             /\ host' = IF Ran(o)
                        THEN RemoteCp(host, GITLAB_RB_PATH, backup_path(ts))
                        ELSE host
             /\ LET run == [runs[r] EXCEPT
                               !.timestamp = ts,
                               !.is_connected = Up(o),
                               !.paths = @ \cup {backup_path(ts)},
                               !.backed_up = IF Ran(o) THEN host[GITLAB_RB_PATH] ELSE @]
                IN  runs' = [runs EXCEPT ![r] =
                       IF o # "ok" THEN RunFailed(run)
                       ELSE [run EXCEPT !.pc =
                                IF run.command = "set-config" THEN "download"
                                ELSE "upload_put"]]
    /\ UNCHANGED clock
    /\ HostFrame

\* lines 79-82: conn.sftp(), then tmp_path is built from `timestamp`
RunOpenSftp(r) ==
    /\ runs[r].pc = "download"
    /\ \E o \in Outcomes :
          LET run == [runs[r] EXCEPT !.is_connected = Up(o)]
          IN  runs' = [runs EXCEPT ![r] =
                 IF o = "ok" /\ run.timestamp # 0
                 THEN [run EXCEPT !.pc = "download_cp"]
                 ELSE RunFailed(run)]
    /\ UNCHANGED << clock, host >>
    /\ HostFrame

\* line 83: sudo cp gitlab.rb to tmp_path
RunDownloadCp(r) ==
    /\ runs[r].pc = "download_cp"
    /\ LET to == tmp_path(runs[r].timestamp)
       IN  \E o \in Outcomes :
             /\ host' = IF Ran(o) THEN RemoteCp(host, GITLAB_RB_PATH, to) ELSE host
             /\ LET run == [runs[r] EXCEPT !.is_connected = Up(o),
                                           !.paths = @ \cup {to}]
                IN  runs' = [runs EXCEPT ![r] =
                       IF o = "ok" THEN [run EXCEPT !.pc = "download_chown"]
                       ELSE RunFailed(run)]
    /\ UNCHANGED clock
    /\ HostFrame

\* line 84: sudo chown of tmp_path
RunDownloadChown(r) ==
    /\ runs[r].pc = "download_chown"
    /\ \E o \in Outcomes :
          /\ CanEnd(o, tmp_path(runs[r].timestamp))
          /\ LET run == [runs[r] EXCEPT !.is_connected = Up(o)]
             IN  runs' = [runs EXCEPT ![r] =
                    IF o = "ok" THEN [run EXCEPT !.pc = "download_get"]
                    ELSE RunFailed(run)]
    /\ UNCHANGED << clock, host >>
    /\ HostFrame

\* line 85: conn.get of tmp_path
RunDownloadGet(r) ==
    /\ runs[r].pc = "download_get"
    /\ LET from == tmp_path(runs[r].timestamp)
       IN  \E o \in Outcomes :
             /\ CanEnd(o, from)
             /\ LET run == [runs[r] EXCEPT !.is_connected = Up(o)]
                IN  runs' = [runs EXCEPT ![r] =
                       IF o = "ok"
                       THEN [run EXCEPT !.pc = "download_rm",
                                        !.original_content = Content(host[from])]
                       ELSE RunFailed(run)]
    /\ UNCHANGED << clock, host >>
    /\ HostFrame

\* line 86: sudo rm of tmp_path
RunDownloadRm(r) ==
    /\ runs[r].pc = "download_rm"
    /\ LET path == tmp_path(runs[r].timestamp)
       IN  \E o \in Outcomes :
             /\ CanEnd(o, path)
             /\ host' = IF TookEffect(o, path) THEN RemoteRm(host, path) ELSE host
             /\ LET run == [runs[r] EXCEPT !.is_connected = Up(o)]
                IN  runs' = [runs EXCEPT ![r] =
                       IF o = "ok" THEN [run EXCEPT !.pc = "modify"]
                       ELSE RunFailed(run)]
    /\ UNCHANGED clock
    /\ HostFrame

\* lines 98-129: the local patch
RunPatch(r) ==
    /\ runs[r].pc = "modify"
    /\ runs' = [runs EXCEPT ![r] = [@ EXCEPT
          !.new_content = modify_setting(runs[r].original_content,
                                         runs[r].setting_key,
                                         setting_value).modified_content,
          !.pc = "upload_put"]]
    /\ UNCHANGED << clock, host >>
    /\ HostFrame

\* line 138 (314): conn.put to tmp_upload_path
RunUploadPut(r) ==
    /\ runs[r].pc = "upload_put"
    /\ LET to == tmp_upload_path(runs[r].timestamp)
       IN  \E o \in Outcomes :
             /\ host' = IF Ran(o)
                        THEN [host EXCEPT ![to] = File(runs[r].new_content)]
                        ELSE host
             /\ LET run == [runs[r] EXCEPT !.is_connected = Up(o),
                                           !.paths = @ \cup {to}]
                IN  runs' = [runs EXCEPT ![r] =
                       IF o = "ok" THEN [run EXCEPT !.pc = "upload_chown"]
                       ELSE RunUploadFailed(run)]
    /\ UNCHANGED clock
    /\ HostFrame

\* line 140 (316): sudo chown root:root of tmp_upload_path
RunUploadChown(r) ==
    /\ runs[r].pc = "upload_chown"
    /\ \E o \in Outcomes :
          /\ CanEnd(o, tmp_upload_path(runs[r].timestamp))
          /\ LET run == [runs[r] EXCEPT !.is_connected = Up(o)]
             IN  runs' = [runs EXCEPT ![r] =
                    IF o = "ok" THEN [run EXCEPT !.pc = "upload_chmod"]
                    ELSE RunUploadFailed(run)]
    /\ UNCHANGED << clock, host >>
    /\ HostFrame

\* line 141 (317): sudo chmod 600 of tmp_upload_path
RunUploadChmod(r) ==
    /\ runs[r].pc = "upload_chmod"
    /\ \E o \in Outcomes :
          /\ CanEnd(o, tmp_upload_path(runs[r].timestamp))
          /\ LET run == [runs[r] EXCEPT !.is_connected = Up(o)]
             IN  runs' = [runs EXCEPT ![r] =
                    IF o = "ok" THEN [run EXCEPT !.pc = "upload_mv"]
                    ELSE RunUploadFailed(run)]
    /\ UNCHANGED << clock, host >>
    /\ HostFrame

\* lines 142-143 (318-319): sudo mv of tmp_upload_path onto gitlab.rb
RunUploadMv(r) ==
    /\ runs[r].pc = "upload_mv"
    /\ LET from == tmp_upload_path(runs[r].timestamp)
       IN  \E o \in Outcomes :
             /\ CanEnd(o, from)
             /\ host' = IF TookEffect(o, from)
                        THEN RemoteMv(host, from, GITLAB_RB_PATH)
                        ELSE host
             /\ LET run == [runs[r] EXCEPT !.is_connected = Up(o)]
                IN  runs' = [runs EXCEPT ![r] =
                       IF o # "ok" THEN RunUploadFailed(run)
                       ELSE IF run.run_reconfigure
                            THEN [run EXCEPT !.pc = "reconfigure"]
                            ELSE [run EXCEPT !.pc = "finally", !.retval = "True"]]
    /\ UNCHANGED clock
    /\ HostFrame

\* lines 147-154 (322-329): sudo mv of backup_path onto gitlab.rb
RunRestore(r) ==
    /\ runs[r].pc = "restore"
    /\ LET from == backup_path(runs[r].timestamp)
       IN  \E o \in Outcomes :
             /\ CanEnd(o, from)
             /\ host' = IF TookEffect(o, from)
                        THEN RemoteMv(host, from, GITLAB_RB_PATH)
                        ELSE host
             /\ runs' = [runs EXCEPT ![r] =
                           RunFailed([runs[r] EXCEPT !.is_connected = Up(o)])]
    /\ UNCHANGED clock
    /\ HostFrame

\* lines 160-176 (335-349): sudo gitlab-ctl reconfigure with warn=True
RunReconfigure(r) ==
    /\ runs[r].pc = "reconfigure"
    /\ \E o \in {"ok", "NonZeroExit", "ConnectionLost"} :
          runs' = [runs EXCEPT ![r] = [@ EXCEPT
                      !.is_connected = Up(o),
                      !.pc = "finally",
                      !.retval = IF o = "ok" THEN "True" ELSE "False"]]
    /\ UNCHANGED << clock, host >>
    /\ HostFrame

\* lines 181-184 (354-357): the finally clause
RunFinally(r) ==
    /\ runs[r].pc = "finally"
    /\ runs' = [runs EXCEPT ![r] = [@ EXCEPT !.is_connected = FALSE,
                                             !.pc = "returned"]]
    /\ UNCHANGED << clock, host >>
    /\ HostFrame

HostNext ==
    \/ ClockTick
    \/ \E r \in Runs : RunRender(r)
    \/ \E r \in Runs : RunConnect(r)
    \/ \E r \in Runs : RunBackup(r)
    \/ \E r \in Runs : RunOpenSftp(r)
    \/ \E r \in Runs : RunDownloadCp(r)
    \/ \E r \in Runs : RunDownloadChown(r)
    \/ \E r \in Runs : RunDownloadGet(r)
    \/ \E r \in Runs : RunDownloadRm(r)
    \/ \E r \in Runs : RunPatch(r)
    \/ \E r \in Runs : RunUploadPut(r)
    \/ \E r \in Runs : RunUploadChown(r)
    \/ \E r \in Runs : RunUploadChmod(r)
    \/ \E r \in Runs : RunUploadMv(r)
    \/ \E r \in Runs : RunRestore(r)
    \/ \E r \in Runs : RunReconfigure(r)
    \/ \E r \in Runs : RunFinally(r)

HostSpec == HostInit /\ [][HostNext]_vars

-----------------------------------------------------------------------------
(* C23 *)

\* no path but gitlab.rb is named in the commands of both runs
PathsNeverShared == runs[1].paths \cap runs[2].paths = {}

\* a run about to restore finds at its backup path the text gitlab.rb had
\* when this run copied it
RestoresOwnBackup ==
    \A r \in Runs :
        runs[r].pc = "restore" =>
            host[backup_path(runs[r].timestamp)] = runs[r].backed_up

\* C23: two runs against the same host, interleaved or one after the other,
\* never share a backup path or a temp artifact path, and the backup a run
\* restores from on upload failure is the one it created, still holding the
\* text gitlab.rb had when the run took it, also when both runs read the
\* clock within the same second.
C23_RunsNeverSharePaths ==
    /\ PathsNeverShared
    /\ RestoresOwnBackup

\* the same two properties for runs that read the clock in different seconds
C23_DistinctSeconds ==
    (runs[1].timestamp # runs[2].timestamp) =>
        /\ PathsNeverShared
        /\ RestoresOwnBackup

====
